---- MODULE Spec2Model ----
(***************************************************************************)
(* Model of the connection/session engine of the Yamaha XMV amplifier      *)
(* client (custom_components/xmv_controller/api.py, class AmplifierClient).*)
(*                                                                         *)
(* The engine runs on one asyncio event loop.  A task runs without         *)
(* interruption from one await that suspends to the next, so every action  *)
(* of the model is one such run of one task.  The loop's ready queue is    *)
(* FIFO (variable ready); timers, the network and the callers of the       *)
(* engine append to it.  The code of a coroutine between two suspension    *)
(* points is written as an operator from a state record to a state record, *)
(* named after the method it models, so that nested calls compose.         *)
(***************************************************************************)
EXTENDS Integers, Sequences, FiniteSets, TLC

\* ---- bounds of the model (not program constants) ----
\* the life cycle (Spec)
LcConn == 2        \* transports the network lets the engine open
LcFail == 1        \* connection attempts the network refuses
LcRecv == 2        \* lines the amplifier sends
LcEof  == 1        \* times the amplifier closes its end
LcDisc == 1        \* calls of disconnect()
LcReg  == 1        \* calls of register_callback()
LcSend == 1        \* calls of async_set_power()
\* fan-out (SpecFan)
FanReg  == 3       \* calls of register_callback()
FanChan == 3       \* channel ids in use
FanRecv == 2       \* lines the amplifier sends
\* sending (SpecSend)
SndConn == 1       \* transports opened, lines received
SndReg  == 1       \* calls of register_callback()
SndSend == 2       \* calls of async_set_power()
SndFull == 2       \* writes that find the buffer full
SndLost == 1       \* connections the network drops
SndTick == 1       \* keep-alive periods that elapse
SndHsto == 1       \* handshake reads that time out
\* starting (SpecStart)
StStart == 3       \* calls of start()
StDisc  == 2       \* calls of disconnect()
StConn  == 1       \* transports opened, lines received
\* conversions (SpecConv)
VolDen == 128      \* volumes are the fractions k / VolDen, k in 0..VolDen
\* parsing (SpecParse)
ParReg  == 2       \* register_callback calls
ParChan == 2       \* channels they choose from
ParRecv == 2       \* lines received
\* stopping (SpecStop)
StopDisc == 1      \* disconnect() calls
StopReg  == 2      \* register_callback calls
StopSend == 1      \* async_set_power calls
\* reconnecting (SpecRetry)
RtRecv == 2        \* lines received
RtEof  == 1        \* end-of-stream from the peer
RtLost == 1        \* errors reported by the transport
RtSend == 1        \* async_set_power calls
\* resynchronising (SpecResync)
RsReg  == 2        \* register_callback calls
RsChan == 2        \* channels they choose from
RsRecv == 2        \* lines received
\* registrations with the channel id '' (SpecAnchor)
AnReg  == 2
AnChan == 2
AnDisc == 1
\* closing a session from several tasks (SpecClose)
ClConn == 2
ClRecv == 2
ClLost == 1
ClSend == 1
ClFull == 1
ClDisc == 1
\* failures inside the manager loop (SpecSupervise)
SvFail == 1        \* refused connection attempts
SvRecv == 1
SvEof  == 1
\* keep-alive (SpecPulse)
PlTick == 2        \* ticks of the 60 s timer
PlEof  == 1        \* end-of-stream from the peer
PlDisc == 1        \* disconnect() calls
\* counters
MaxUpd   == 2      \* updates counted per callback
FailCap  == 7      \* consecutive failed attempts counted

Max(a, b) == IF a > b THEN a ELSE b
\* sizes of the pools of identifiers
MaxConn  == Max(LcConn, Max(SndConn, StConn))
MaxStart == StStart
MaxDisc  == Max(LcDisc, StDisc)
MaxReg   == Max(LcReg, Max(FanReg, SndReg))
MaxSend  == Max(LcSend, SndSend)
MaxChan  == FanChan

\* ---- program constants ----
RECONNECT_DELAY_INITIAL == 5
RECONNECT_DELAY_MAX == 60
SAFEGUARD_DELAY == 5
KEEP_ALIVE_INTERVAL == 60
AMP_MUTE_VALUE == -13801
PATH_ID_POWER == "60003"
PATH_ID_VOLUME == "60002"

None == 0
\* the range the configuration form proposes
DEFAULT_MIN_DB == -80
DEFAULT_MAX_DB == 0
Transports == 1..MaxConn
\* the channel id '' (config_flow keeps the text before ':' as it is)
EmptyId == -1
Channels == {EmptyId} \cup 1..MaxChan
Callbacks == 1..MaxReg
NoTask == <<"none", 0>>

Managers   == {<<"M", i>> : i \in 1..MaxStart}
KeepAlives == {<<"K", i>> : i \in 1..MaxStart}
Listeners  == {<<"L", i>> : i \in 1..MaxConn}
Disconnecters == {<<"D", i>> : i \in 1..MaxDisc}
Registrars == {<<"R", i>> : i \in 1..MaxReg}
Senders    == {<<"S", i>> : i \in 1..MaxSend}
Tasks == Managers \cup KeepAlives \cup Listeners \cup Disconnecters
            \cup Registrars \cup Senders
\* connection_lost callbacks the transport schedules with call_soon on close()
LostCbs == {<<"X", t>> : t \in Transports}

\* lines the amplifier can send
HS_OK   == <<"hs", 0>>       \* HANDSHAKE_RESPONSE
JUNK    == <<"junk", 0>>     \* decodable text, no recognised prefix
UNDEC   == <<"undec", 0>>    \* bytes that are not ASCII
Upd(c)  == <<"upd", c>>      \* well-formed "OK get ..." power line of channel c
Msg(i)  == <<"msg", i>>      \* the decodable text Texts[i]
NoLine == <<"none", 0>>

\* A decoded, stripped line as str.split() sees it: a sequence of fields, each
\* field a sequence of the parts that split('/') gives, each part a number
\* (int() accepts it) or some other text.
Txt(x) == [t |-> x, n |-> 0]
Num(n) == [t |-> "", n |-> n]
W(x) == <<Txt(x)>>
V(n) == <<Num(n)>>
Addr(command_id, c) ==
    <<Txt("MTX:mem_512"), Txt(command_id), Num(0), Num(c), Num(0), Num(0), Num(0)>>

Texts == <<
    <<W("OK"), W("get"), Addr(PATH_ID_POWER, 1), V(0), V(0), V(1)>>,
    <<W("NOTIFY"), W("set"), Addr(PATH_ID_VOLUME, 2), V(0), V(0), V(-4000)>>,
    <<W("OK"), W("set"), Addr(PATH_ID_POWER, 1), V(0), V(0)>>,
    <<W("OK"), W("get")>>,
    <<W("OK"), W("get"), <<Txt("MTX:mem_512"), Txt(PATH_ID_POWER), Num(0)>>,
      V(0), V(0), V(1)>>,
    <<W("NOTIFY"), W("set"), Addr(PATH_ID_VOLUME, 1), V(0), V(0), W("x")>>,
    <<W("OK"), W("get"), Addr("60001", 1), V(0), V(0), V(1)>>,
    <<W("ERROR"), W("get"), Addr(PATH_ID_POWER, 1), V(0), V(0), V(1)>> >>

Lines == {HS_OK, JUNK, UNDEC} \cup {Upd(c) : c \in Channels}
             \cup {Msg(i) : i \in DOMAIN Texts}

Min(a, b) == IF a < b THEN a ELSE b

Range(f) == {f[i] : i \in DOMAIN f}
InSeq(x, q) == \E i \in DOMAIN q : q[i] = x
\* Python truth value of a channel id: None and '' are false
Falsy(x) == x \in {None, EmptyId}
RECURSIVE Remove(_, _)
Remove(q, x) == IF q = <<>> THEN <<>>
                ELSE IF Head(q) = x THEN Remove(Tail(q), x)
                ELSE <<Head(q)>> \o Remove(Tail(q), x)

VARIABLES
    \* fields of AmplifierClient
    is_connected, reader, writer, listen_task, manager_task, keep_alive_task,
    callbacks, chans, keep_alive_channel_id, lock, lockq,
    \* the subscribers: what each registered callback does and has been given
    cbKind, lastAvail, nUpd,
    \* transports: socket state, the protocol's _closed future, the reader's
    \* buffered line
    tstate, closedFut, rbuf,
    \* asyncio tasks: position, pending CancelledError, locals, result; the
    \* loop's ready queue
    pc, cpend, loc, result, ready,
    \* what the environment (callers, network, timers) may still do
    bud,
    \* observations used by the properties
    obs,
    \* the configured range and the last conversion made with it
    conv,
    \* flips each time the event loop runs a callback of its ready queue
    turn

vars == <<is_connected, reader, writer, listen_task, manager_task, keep_alive_task,
          callbacks, chans, keep_alive_channel_id, lock, lockq,
          cbKind, lastAvail, nUpd, tstate, closedFut, rbuf,
          pc, cpend, loc, result, ready, bud, obs, conv, turn>>

LocInit == [tr |-> None, cf |-> "none", fr |-> "none", qs |-> "P", ch |-> 0,
            ri |-> 0, rn |-> 0, delay |-> RECONNECT_DELAY_INITIAL, ct |-> 0,
            to |-> FALSE, aw |-> NoTask, why |-> "none", nfail |-> 0, slept |-> 0]

ObsInit == [killed |-> {}, lateAttempt |-> FALSE, lateConn |-> FALSE,
            stopReturned |-> FALSE,
            leftOpen |-> FALSE, skipped |-> FALSE, cbEndedListener |-> FALSE,
            hsChans |-> <<>>, hq |-> [c \in Channels |-> <<>>], hs |-> "none",
            attrErr |-> FALSE, wroteDisc |-> FALSE,
            sendClose |-> "none", overlap |-> FALSE,
            launchedM |-> 0, launchedK |-> 0, startsSince |-> 0,
            dsc |-> [d \in Disconnecters |->
                       [was |-> FALSE, cbs |-> {}, nf |-> 0, end |-> "none",
                        torn |-> FALSE, stopped |-> FALSE, told |-> FALSE]],
            ka |-> [ticks |-> 0, due |-> FALSE, n |-> 0],
            cl |-> [nfalse |-> [cb \in Callbacks |-> 0], by |-> {},
                    again |-> FALSE, changed |-> FALSE],
            px |-> [ln |-> 0, pre |-> FALSE, out |-> "none", ch |-> 0,
                    regd |-> <<>>, calls |-> <<>>, raised |-> FALSE,
                    same |-> TRUE, conn |-> FALSE, cont |-> FALSE],
            reg |-> [r \in Registrars |->
                       [conn |-> "none", ch |-> 0, had |-> FALSE, deliv |-> FALSE,
                        q |-> <<>>, skip |-> FALSE]]]

\* The state as one record; mc is Task._must_cancel of the running task, which
\* is always consumed before the run ends (at the next suspension or at return);
\* full tells whether a write of this run finds the transport's buffer above
\* its high-water mark (the protocol is paused and drain() waits).
Cur == [is_connected |-> is_connected, reader |-> reader, writer |-> writer,
        listen_task |-> listen_task, manager_task |-> manager_task,
        keep_alive_task |-> keep_alive_task, callbacks |-> callbacks,
        chans |-> chans, keep_alive_channel_id |-> keep_alive_channel_id,
        lock |-> lock, lockq |-> lockq, cbKind |-> cbKind,
        lastAvail |-> lastAvail, nUpd |-> nUpd, tstate |-> tstate,
        closedFut |-> closedFut, rbuf |-> rbuf,
        pc |-> pc, cpend |-> cpend, loc |-> loc, result |-> result,
        ready |-> ready, bud |-> bud, obs |-> obs, conv |-> conv,
        turn |-> turn,
        mc |-> [t \in Tasks |-> FALSE], full |-> FALSE]

Set(s) ==
    /\ is_connected' = s.is_connected /\ reader' = s.reader /\ writer' = s.writer
    /\ listen_task' = s.listen_task /\ manager_task' = s.manager_task
    /\ keep_alive_task' = s.keep_alive_task /\ callbacks' = s.callbacks
    /\ chans' = s.chans /\ keep_alive_channel_id' = s.keep_alive_channel_id
    /\ lock' = s.lock /\ lockq' = s.lockq /\ cbKind' = s.cbKind
    /\ lastAvail' = s.lastAvail /\ nUpd' = s.nUpd /\ tstate' = s.tstate
    /\ closedFut' = s.closedFut /\ rbuf' = s.rbuf
    /\ pc' = s.pc /\ cpend' = s.cpend /\ loc' = s.loc /\ result' = s.result
    /\ ready' = s.ready /\ bud' = s.bud /\ obs' = s.obs /\ conv' = s.conv
    /\ turn' = s.turn

\* ------------------------------------------------------------------------
\* asyncio: tasks, futures, the ready queue
\* ------------------------------------------------------------------------
InReady(s, x) == InSeq(x, s.ready)

\* a set of tasks appended to the ready queue (callbacks of one future)
RECURSIVE Enqueue(_, _)
Enqueue(q, S) == IF S = {} THEN q
                 ELSE LET x == CHOOSE y \in S : TRUE IN Enqueue(Append(q, x), S \ {x})

\* tasks suspended on the protocol's _closed future of transport t
ClosedWaiters(s, t) ==
    {x \in Tasks : s.pc[x] = "wclose" /\ s.loc[x].tr = t /\ ~InReady(s, x)}
\* task suspended in StreamReader.readline of transport t
ReadWaiters(s, t) ==
    {x \in Tasks : s.pc[x] \in {"read", "hs_read"} /\ s.loc[x].tr = t /\ ~InReady(s, x)}
\* tasks suspended in drain() on the paused protocol of transport t
DrainWaiters(s, t) ==
    {x \in Tasks : s.pc[x] = "drain" /\ s.loc[x].tr = t /\ ~InReady(s, x)}
\* managers suspended on "await self._listen_task" for listener l
TaskWaiters(s, l) ==
    {x \in Managers : s.pc[x] = "wait_listen" /\ s.loc[x].aw = l /\ ~InReady(s, x)}

\* The task reaches an await that suspends it at position p.  A cancel() the
\* task made on itself while running (Task._must_cancel) cancels the future
\* just awaited and reschedules the task with CancelledError.
Suspend(s, self, p) ==
    IF s.mc[self]
    THEN [s EXCEPT !.pc[self] = p, !.mc[self] = FALSE, !.cpend[self] = TRUE,
                   !.ready = Append(@, self)]
    ELSE [s EXCEPT !.pc[self] = p]

\* The coroutine of the task returns or raises: res is "ok", "exc" or
\* "cancelled".  A return with _must_cancel set ends the task as cancelled.
Finish(s, self, res) ==
    LET r == IF s.mc[self] /\ res = "ok" THEN "cancelled" ELSE res IN
    [s EXCEPT !.pc[self] = "done", !.result[self] = r, !.mc[self] = FALSE,
              !.cpend[self] = FALSE,
              !.loc[self] = [LocInit EXCEPT !.why = s.loc[self].why,
                                            !.delay = s.loc[self].delay,
                                            !.nfail = s.loc[self].nfail,
                                            !.slept = s.loc[self].slept],
              !.ready = Enqueue(@, TaskWaiters(s, self))]

\* Task.cancel() on a task that is not waiting for another task.
CancelLeaf(s, self, x) ==
    IF s.pc[x] = "done" THEN s
    ELSE IF x = self THEN [s EXCEPT !.mc[x] = TRUE]
    ELSE IF InReady(s, x) THEN [s EXCEPT !.cpend[x] = TRUE]
    ELSE IF s.pc[x] = "wclose"
    THEN \* the awaited future is the transport's shared _closed future
         [s EXCEPT !.cpend[x] = TRUE,
                   !.closedFut[s.loc[x].tr] = "cancelled",
                   !.ready = Enqueue(Append(@, x), ClosedWaiters(s, s.loc[x].tr) \ {x})]
    ELSE [s EXCEPT !.cpend[x] = TRUE, !.ready = Append(@, x)]

\* Task.cancel(): a task awaiting another task passes the cancellation on to
\* it and is itself woken only when that task ends.
Cancel(s, self, x) ==
    IF s.pc[x] = "wait_listen" /\ ~InReady(s, x) /\ s.pc[s.loc[x].aw] # "done"
    THEN CancelLeaf(s, self, s.loc[x].aw)
    ELSE CancelLeaf(s, self, x)

\* ------------------------------------------------------------------------
\* conversions between Home Assistant volumes and amplifier values
\* ------------------------------------------------------------------------
\* int(x) of Python for the fraction a / b, b > 0: truncation toward zero
TruncDiv(a, b) == IF a >= 0 THEN a \div b ELSE -((-a) \div b)

\* async_set_volume: amp_volume for ha_volume = k / VolDen
amp_volume(min_db_100, max_db_100, k) ==
    LET db_range == max_db_100 - min_db_100 IN
    TruncDiv(min_db_100 * VolDen + k * db_range, VolDen)

\* max(0.0, min(1.0, n / d)) as a fraction <<numerator, denominator>>, d # 0
Clamp01(n, d) ==
    LET a == IF d > 0 THEN n ELSE -n
        b == IF d > 0 THEN d ELSE -d IN
    IF a <= 0 THEN <<0, 1>> ELSE IF a >= b THEN <<1, 1>> ELSE <<a, b>>

NoPatch == [kind |-> "none"]

\* update_data without max(0.0, min(1.0, ...))
update_data_unclamped(min_db_100, max_db_100, command_id, value) ==
    IF command_id = PATH_ID_POWER THEN [kind |-> "power", power |-> (value = 1)]
    ELSE IF command_id = PATH_ID_VOLUME
    THEN IF value = AMP_MUTE_VALUE THEN [kind |-> "mute", mute |-> TRUE]
         ELSE LET db_range == max_db_100 - min_db_100 IN
              [kind |-> "volume", mute |-> FALSE,
               volume |-> IF db_range > 0 THEN <<value - min_db_100, db_range>>
                          ELSE IF db_range < 0 THEN <<min_db_100 - value, -db_range>>
                          ELSE <<1, 1>>]
    ELSE NoPatch

\* _process_message: update_data for a line whose fields parse, addressed to
\* a registered channel
update_data(min_db_100, max_db_100, command_id, value) ==
    IF command_id = PATH_ID_POWER THEN [kind |-> "power", power |-> (value = 1)]
    ELSE IF command_id = PATH_ID_VOLUME
    THEN IF value = AMP_MUTE_VALUE THEN [kind |-> "mute", mute |-> TRUE]
         ELSE LET db_range == max_db_100 - min_db_100 IN
              [kind |-> "volume", mute |-> FALSE,
               volume |-> IF db_range # 0 THEN Clamp01(value - min_db_100, db_range)
                          ELSE <<1, 1>>]
    ELSE NoPatch

\* __init__: the configured range in dB, kept in hundredths
ConvInit(dbs) ==
    {[min_db_100 |-> d[1] * 100, max_db_100 |-> d[2] * 100, op |-> "none",
      k |-> 0, amp |-> 0, echo |-> FALSE, cmd |-> "", value |-> 0,
      patch |-> NoPatch] : d \in dbs}

\* ------------------------------------------------------------------------
\* transports (asyncio selector transport + StreamReaderProtocol)
\* ------------------------------------------------------------------------
\* StreamWriter.close(): the first close of a live transport schedules
\* connection_lost(None) with call_soon
transport_close(s, t) ==
    IF s.tstate[t] \in {"open", "eof"}
    THEN [s EXCEPT !.tstate[t] = "closing", !.ready = Append(@, <<"X", t>>)]
    ELSE s

\* StreamReader.readline() on transport t without suspending: what it yields
try_read(s, t) ==
    IF s.tstate[t] = "reset" THEN "reset"          \* ConnectionResetError
    ELSE IF s.tstate[t] = "oserr" THEN "oserr"     \* another OSError
    ELSE IF s.rbuf[t] # NoLine THEN "line"
    ELSE IF s.tstate[t] \in {"eof", "closed"} THEN "eof"
    ELSE "wait"

\* ------------------------------------------------------------------------
\* AmplifierClient
\* ------------------------------------------------------------------------
RECURSIVE Flatten(_, _)
Flatten(cbs, order) ==
    IF order = <<>> THEN <<>> ELSE cbs[Head(order)] \o Flatten(cbs, Tail(order))

\* the callbacks in the order the two nested loops of _notify_availability
\* visit them
AllCbs(s) == Flatten(s.callbacks, s.chans)

\* position in q of the first callback that raises, 0 when none does
FirstRaise(s, q) ==
    IF \E i \in DOMAIN q : s.cbKind[q[i]] = "raise"
    THEN CHOOSE i \in DOMAIN q : /\ s.cbKind[q[i]] = "raise"
                                 /\ \A j \in 1..(i-1) : s.cbKind[q[j]] # "raise"
    ELSE 0

\* the callbacks of q that a loop "for callback in q: callback(...)" calls
Called(s, q) ==
    LET k == FirstRaise(s, q) IN IF k = 0 THEN q ELSE SubSeq(q, 1, k)

notify_availability(s, v) ==
    LET q == AllCbs(s)
        c == Range(Called(s, q)) IN
    [s EXCEPT !.lastAvail = [cb \in Callbacks |-> IF cb \in c THEN v ELSE @[cb]],
              !.obs.skipped = @ \/ (Len(Called(s, q)) < Len(q))]

NotifyRaises(s) == FirstRaise(s, AllCbs(s)) # 0

Registered(s) == Range(AllCbs(s))

\* Lock.release(): wakes the first waiter unless its future is already done
release(s) ==
    [s EXCEPT !.lock = NoTask,
              !.ready = IF s.lockq # <<>> /\ ~InReady(s, Head(s.lockq))
                        THEN Append(@, Head(s.lockq)) ELSE @]

\* _connection_manager, top of the while loop
connection_manager_top(s, m) ==
    IF ~s.is_connected
    THEN Suspend([s EXCEPT !.loc[m].ct = 0, !.loc[m].to = FALSE,
                           !.obs.hs = "none",
                           !.obs.lateAttempt = @ \/ (m \in s.obs.killed)],
                 m, "opening")
    ELSE Suspend([s EXCEPT !.loc[m].slept = SAFEGUARD_DELAY], m, "safe_sleep")

\* _connection_manager, _connect_and_handshake returned False
connection_failed(s, m) ==
    Suspend([s EXCEPT !.loc[m].nfail = Min(@ + 1, FailCap),
                      !.loc[m].slept = s.loc[m].delay,
                      !.obs.hs = "none"],
            m, "backoff_sleep")

\* _connection_manager, an exception reaches the try of the while loop
manager_raise(s, m, kind) ==
    IF kind = "cancel"
    THEN Finish(s, m, "ok")                  \* except CancelledError: break
    ELSE Suspend([s EXCEPT !.loc[m].slept = s.loc[m].delay,
                           !.loc[m].nfail = IF s.obs.hs = "none"
                                            THEN Min(@ + 1, FailCap) ELSE @,
                           !.obs.hs = IF @ = "running" THEN "raised" ELSE @],
                 m, "exc_sleep")             \* except Exception: sleep

\* _connection_manager, _connect_and_handshake returned True
connection_successful(s, m) ==
    LET l == <<"L", s.loc[m].ct>> IN
    Suspend([s EXCEPT !.loc[m].delay = RECONNECT_DELAY_INITIAL,
                      !.loc[m].aw = l, !.listen_task = l,
                      !.pc[l] = "new", !.ready = Append(@, l),
                      !.obs.hs = IF @ = "running" THEN "returned" ELSE @],
            m, "wait_listen")

\* what follows the return of _send_command in its caller
after_send(s, self) ==
    CASE s.loc[self].fr = "cmd" -> Finish(s, self, "ok")
      [] s.loc[self].fr = "ka"  -> Suspend(s, self, "ka_sleep")
      [] OTHER -> Suspend(s, self, "qsleep")     \* asyncio.sleep(0.1)

\* an exception leaves _send_command (or the sleep after it)
raise_out(s, self, kind) ==
    CASE s.loc[self].fr = "ka" ->
            IF kind = "cancel" THEN Finish(s, self, "ok")
            ELSE Suspend(s, self, "ka_sleep")
      [] s.loc[self].fr = "resync" -> manager_raise(s, self, kind)
      [] OTHER -> Finish(s, self, IF kind = "cancel" THEN "cancelled" ELSE "exc")

\* _listen returns after a break
ListenClosed(s) ==
    /\ ~s.is_connected /\ s.reader = None /\ s.writer = None
    /\ \A cb \in Registered(s) : s.lastAvail[cb] # "true"

listen_end(s, self, why) ==
    Finish([s EXCEPT !.loc[self].why = why,
                     !.obs.leftOpen = @ \/ (why \in {"eof", "err", "reset"}
                                            /\ ~ListenClosed(s)),
                     !.obs.cbEndedListener = @ \/ (why = "cberr")],
           self, "ok")

SendClosed(s) ==
    /\ ~s.is_connected /\ s.listen_task = NoTask
    /\ \A cb \in Registered(s) : s.lastAvail[cb] # "true"

\* _close_connection returns to its caller
\* a task that has ended or has a cancellation under way
Stopped(s, x) == s.pc[x] \in {"idle", "done"} \/ s.cpend[x]

\* disconnect() is over: what it leaves behind
disconnect_end(s, d, how) ==
    [s EXCEPT !.obs.dsc[d] =
        [@ EXCEPT !.end = how,
                  !.torn = ~s.is_connected /\ s.reader = None /\ s.writer = None,
                  !.stopped = \A x \in Listeners \cup KeepAlives : Stopped(s, x),
                  !.told = \A cb \in s.obs.dsc[d].cbs : s.lastAvail[cb] = "false"]]

after_close(s, self) ==
    CASE s.loc[self].cf = "disc" ->
            Finish(disconnect_end([s EXCEPT !.obs.stopReturned = TRUE],
                                  self, "returned"), self, "ok")
      [] s.loc[self].cf = "hs_fail" -> connection_failed(s, self)
      [] s.loc[self].cf = "send" ->
            after_send(release([s EXCEPT !.obs.sendClose =
                                   IF SendClosed(s) THEN "ok" ELSE "bad"]), self)
      [] s.loc[self].cf = "sendx" -> after_send(release(s), self)
      [] OTHER -> listen_end(s, self, s.loc[self].why)

\* an exception leaves _close_connection
raise_from_close(s, self, kind) ==
    CASE s.loc[self].cf = "disc" ->
            Finish(disconnect_end(s, self, "raised"), self,
                   IF kind = "cancel" THEN "cancelled" ELSE "exc")
      [] s.loc[self].cf = "hs_fail" -> manager_raise(s, self, kind)
      [] s.loc[self].cf = "send" ->
            raise_out(release([s EXCEPT !.obs.sendClose = "bad"]), self, kind)
      [] s.loc[self].cf = "sendx" -> raise_out(release(s), self, kind)
      [] s.loc[self].cf = "listen_eof" ->
            \* inside the try of _listen: CancelledError breaks; another
            \* exception (raised by a callback after the flag was cleared)
            \* runs the second _close_connection, which finds nothing to do
            listen_end(s, self, s.loc[self].why)
      [] OTHER ->
            \* inside the "except Exception" handler of _listen
            Finish([s EXCEPT !.obs.leftOpen = @ \/ (s.loc[self].why = "err"
                                                    /\ ~ListenClosed(s)),
                             !.obs.cbEndedListener = @ \/ (s.loc[self].why = "cberr")],
                   self, IF kind = "cancel" THEN "cancelled" ELSE "exc")

\* _close_connection after wait_closed(), were the notification not guarded by
\* the connected flag
close_tail_unguarded(s, self) ==
    LET s1 == [s EXCEPT !.reader = None, !.writer = None, !.loc[self].tr = None]
        s2 == notify_availability(
                  [s1 EXCEPT !.is_connected = FALSE,
                             !.obs.cl.nfalse = [cb \in Callbacks |->
                                 IF cb \in Range(Called(s, AllCbs(s)))
                                 THEN Min(@[cb] + 1, 2) ELSE @[cb]]],
                  "false") IN
    IF NotifyRaises(s1) THEN raise_from_close(s2, self, "error")
    ELSE after_close(s2, self)

\* _close_connection after wait_closed()
close_tail(s, self) ==
    LET s1 == [s EXCEPT !.reader = None, !.writer = None, !.loc[self].tr = None] IN
    IF s.is_connected
    THEN LET s2 == notify_availability(
                       [s1 EXCEPT !.is_connected = FALSE,
                                  !.obs.cl.nfalse = [cb \in Callbacks |->
                                      IF cb \in Range(Called(s, AllCbs(s)))
                                      THEN Min(@[cb] + 1, 2) ELSE @[cb]],
                                  !.obs.dsc = [d \in Disconnecters |->
                                      IF s.pc[d] \in {"idle", "done"} THEN @[d]
                                      ELSE [@[d] EXCEPT !.nf = Min(@ + 1, 2)]]],
                       "false") IN
         IF NotifyRaises(s1) THEN raise_from_close(s2, self, "error")
         ELSE after_close(s2, self)
    ELSE after_close(s1, self)

\* the session and what its subscribers were told
SessionOf(s) == <<s.is_connected, s.reader, s.writer, s.listen_task, s.lastAvail,
                  s.obs.cl.nfalse, s.tstate, s.closedFut>>
\* r, the state a close of the closed session s ended in: did it change s?
SessionChanged(s, r) ==
    [r EXCEPT !.obs.cl.changed = @ \/ (SessionOf(r) # SessionOf(s))]

\* _close_connection up to wait_closed()
close_connection(s, self, cf) ==
    LET s1 == IF s.listen_task # NoTask
              THEN [Cancel(s, self, s.listen_task) EXCEPT !.listen_task = NoTask]
              ELSE s
        closed == ~s.is_connected /\ s.writer = None /\ s.reader = None
                      /\ s.listen_task = NoTask
        s2 == [s1 EXCEPT !.loc[self].cf = cf,
                         !.obs.cl.by = @ \cup {self[1]},
                         !.obs.cl.again = @ \/ closed]
        w  == s2.writer IN
    IF w = None
    THEN LET r == close_tail(s2, self) IN
         IF closed THEN SessionChanged(s, r) ELSE r
    ELSE LET s3 == transport_close(s2, w) IN
         CASE s3.closedFut[w] = "done" -> close_tail(s3, self)
           [] s3.closedFut[w] = "cancelled" -> raise_from_close(s3, self, "cancel")
           [] OTHER ->
                IF s3.mc[self]
                THEN Suspend([s3 EXCEPT !.loc[self].tr = w,
                                        !.closedFut[w] = "cancelled",
                                        !.ready = Enqueue(@, ClosedWaiters(s3, w))],
                             self, "wclose")
                ELSE Suspend([s3 EXCEPT !.loc[self].tr = w], self, "wclose")

\* _close_connection resumed from wait_closed()
close_resume(s, self, c) ==
    IF c \/ s.closedFut[s.loc[self].tr] = "cancelled"
    THEN raise_from_close([s EXCEPT !.loc[self].tr = None], self, "cancel")
    ELSE close_tail(s, self)

\* asyncio.sleep(0): the task is rescheduled at once
Yield(s, self, p) ==
    IF s.mc[self] THEN Suspend(s, self, p)
    ELSE [s EXCEPT !.pc[self] = p, !.ready = Append(@, self)]

\* _send_command: the write or the flush raised OSError
send_fail(s, self) ==
    close_connection(s, self, IF s.is_connected THEN "send" ELSE "sendx")

\* _send_command inside "async with self._lock": write() and drain()
do_write(s, self) ==
    LET w == s.writer IN
    IF w = None
    THEN \* None.write: AttributeError, not caught by the except clause
         raise_out(release([s EXCEPT !.obs.attrErr = TRUE]), self, "error")
    ELSE LET s1 == [s EXCEPT
                     !.obs.overlap = @ \/ (\E x \in Tasks \ {self} :
                                 s.pc[x] \in {"drain", "drain0"} /\ s.loc[x].tr = w),
                     !.obs.wroteDisc = @ \/ ~s.is_connected,
                     !.obs.ka.n = IF s.loc[self].fr = "ka" THEN Min(@ + 1, 2) ELSE @,
                     !.obs.hq = IF s.loc[self].fr = "resync"
                                THEN [@ EXCEPT ![s.loc[self].ch] = Append(@, s.loc[self].qs)]
                                ELSE @,
                     !.obs.reg = IF s.loc[self].fr = "reg"
                                 THEN [@ EXCEPT ![self].q = Append(@, s.loc[self].qs)]
                                 ELSE @] IN
         CASE s.tstate[w] \in {"reset", "oserr"} -> send_fail(s1, self)
           [] s.tstate[w] \in {"closing", "closed"} ->
                Yield([s1 EXCEPT !.loc[self].tr = w], self, "drain0")
           [] s.full \/ DrainWaiters(s, w) # {} ->
                Suspend([s1 EXCEPT !.loc[self].tr = w,
                                   !.bud.full = IF s.full THEN @ - 1 ELSE @],
                        self, "drain")
           [] OTHER -> after_send(release(s1), self)

\* _send_command without "async with self._lock"
send_command_unlocked(s, self) ==
    IF ~s.is_connected \/ s.writer = None
    THEN after_send(s, self)
    ELSE do_write(s, self)

\* _send_command
send_command(s, self) ==
    IF ~s.is_connected \/ s.writer = None
    THEN after_send([s EXCEPT !.obs.reg = IF s.loc[self].fr = "reg"
                                          THEN [@ EXCEPT ![self].skip = TRUE] ELSE @],
                    self)
    ELSE IF s.lock = NoTask /\ \A i \in DOMAIN s.lockq : s.cpend[s.lockq[i]]
    THEN do_write([s EXCEPT !.lock = self], self)
    ELSE Suspend([s EXCEPT !.lockq = Append(@, self)], self, "lockwait")

\* Lock.acquire resumed
lock_resume(s, self, c) ==
    LET s1 == [s EXCEPT !.lockq = Remove(@, self)] IN
    IF c
    THEN raise_out(IF s1.lock = NoTask THEN release(s1) ELSE s1, self, "cancel")
    ELSE do_write([s1 EXCEPT !.lock = self], self)

\* drain() resumed
drain_resume(s, self, c) ==
    LET t  == s.loc[self].tr
        s1 == [s EXCEPT !.loc[self].tr = None] IN
    IF c THEN raise_out(release(s1), self, "cancel")
    ELSE IF s.tstate[t] \in {"reset", "oserr"} THEN send_fail(s1, self)
    ELSE IF s.pc[self] = "drain0" /\ s.tstate[t] = "closed" THEN send_fail(s1, self)
    ELSE IF s.pc[self] = "drain0" /\ DrainWaiters(s, t) # {} THEN Suspend(s, self, "drain")
    ELSE after_send(release(s1), self)

\* async_query_channel_state
async_query_channel_state(s, self, ch) ==
    send_command([s EXCEPT !.loc[self].ch = ch, !.loc[self].qs = "P"], self)

\* _connect_and_handshake: the loop "for channel_id in self._callbacks"
resync_next(s, m) ==
    IF Len(s.chans) # s.loc[m].rn
    THEN manager_raise(s, m, "error")   \* dictionary changed size during iteration
    ELSE IF s.loc[m].ri > Len(s.chans)
    THEN connection_successful(s, m)
    ELSE async_query_channel_state([s EXCEPT !.loc[m].ri = @ + 1,
                                             !.loc[m].fr = "resync"],
                                   m, s.chans[s.loc[m].ri])

\* asyncio.sleep(0.1) of async_query_channel_state resumed
query_resume(s, self, c) ==
    IF c THEN raise_out(s, self, "cancel")
    ELSE IF s.loc[self].qs = "P"
    THEN send_command([s EXCEPT !.loc[self].qs = "V"], self)
    ELSE IF s.loc[self].fr = "resync" THEN resync_next(s, self)
    ELSE Finish(s, self, "ok")

\* _connect_and_handshake: the reply equals HANDSHAKE_RESPONSE
handshake_ok(s, m) ==
    LET s1 == [s EXCEPT !.is_connected = TRUE,
                        !.loc[m].nfail = 0,
                        !.loc[m].ri = 1, !.loc[m].rn = Len(s.chans),
                        !.obs.hs = "running", !.obs.hsChans = s.chans,
                        !.obs.cl.nfalse = [cb \in Callbacks |-> 0],
                        !.obs.cl.by = {},
                        !.obs.hq = [c \in Channels |-> <<>>],
                        !.obs.lateConn = @ \/ (m \in s.obs.killed)]
        s2 == notify_availability(s1, "true") IN
    IF NotifyRaises(s1) THEN manager_raise(s2, m, "error")
    ELSE resync_next(s2, m)

\* _connect_and_handshake: wait_for(self._reader.readline()) on reader t
handshake_read(s, m, t) ==
    LET o == try_read(s, t) IN
    CASE o = "wait" -> Suspend([s EXCEPT !.loc[m].tr = t], m, "hs_read")
      [] o = "line" ->
            LET s1 == [s EXCEPT !.rbuf[t] = NoLine, !.loc[m].tr = None] IN
            IF s.rbuf[t] = HS_OK THEN handshake_ok(s1, m)
            ELSE IF s.rbuf[t] = UNDEC
            THEN manager_raise(s1, m, "error")      \* UnicodeDecodeError
            ELSE close_connection(s1, m, "hs_fail")
      [] OTHER -> close_connection([s EXCEPT !.loc[m].tr = None], m, "hs_fail")

\* _connect_and_handshake resumed from open_connection
connect_resume(s, m, c) ==
    LET t == s.loc[m].ct IN
    IF c
    THEN \* CancelledError: asyncio closes the socket it was opening
         Finish([s EXCEPT !.tstate = IF t > 0 THEN [@ EXCEPT ![t] = "closed"] ELSE @,
                          !.closedFut = IF t > 0 THEN [@ EXCEPT ![t] = "done"] ELSE @],
                m, "ok")
    ELSE IF t < 0 THEN connection_failed(s, m)
    ELSE LET s1 == [s EXCEPT !.reader = t, !.writer = t,
                      !.obs.overlap = @ \/ (\E x \in Tasks \ {m} :
                                 s.pc[x] \in {"drain", "drain0"} /\ s.loc[x].tr = t)] IN
         IF s.tstate[t] \in {"reset", "oserr"}
         THEN close_connection(s1, m, "hs_fail")     \* drain() raises
         ELSE handshake_read(s1, m, t)

\* _connect_and_handshake resumed from wait_for(readline)
handshake_resume(s, m, c) ==
    IF c THEN Finish(s, m, "ok")
    ELSE IF s.loc[m].to
    THEN close_connection([s EXCEPT !.loc[m].to = FALSE, !.loc[m].tr = None],
                          m, "hs_fail")
    ELSE handshake_read(s, m, s.loc[m].tr)

\* _connection_manager resumed from "await self._listen_task"
listen_wait_resume(s, m, c) ==
    LET l  == s.loc[m].aw
        s1 == [s EXCEPT !.loc[m].aw = NoTask] IN
    IF c \/ s.result[l] = "cancelled" THEN connection_manager_top(s1, m)
    ELSE IF s.result[l] = "exc" THEN manager_raise(s1, m, "error")
    ELSE connection_manager_top(s1, m)

\* the parts of a coroutine that every caller of _send_command shares
common_resume(s, self, c) ==
    CASE s.pc[self] = "lockwait" -> lock_resume(s, self, c)
      [] s.pc[self] \in {"drain", "drain0"} -> drain_resume(s, self, c)
      [] s.pc[self] = "wclose" -> close_resume(s, self, c)
      [] OTHER -> query_resume(s, self, c)

\* _connection_manager: one run of the task
connection_manager(s, m, c) ==
    CASE s.pc[m] = "new" ->
            IF c THEN Finish(s, m, "cancelled") ELSE connection_manager_top(s, m)
      [] s.pc[m] = "opening" -> connect_resume(s, m, c)
      [] s.pc[m] = "hs_read" -> handshake_resume(s, m, c)
      [] s.pc[m] = "wait_listen" -> listen_wait_resume(s, m, c)
      [] s.pc[m] = "backoff_sleep" ->
            IF c THEN Finish(s, m, "ok")
            ELSE connection_manager_top(
                   [s EXCEPT !.loc[m].delay = Min(@ * 2, RECONNECT_DELAY_MAX)], m)
      [] s.pc[m] = "safe_sleep" ->
            IF c THEN Finish(s, m, "ok") ELSE connection_manager_top(s, m)
      [] s.pc[m] = "exc_sleep" ->
            IF c THEN Finish(s, m, "cancelled") ELSE connection_manager_top(s, m)
      [] OTHER -> common_resume(s, m, c)

\* _process_message for a well-formed line of channel c: the fan-out loop
process_message(s, c) ==
    IF ~InSeq(c, s.chans) THEN s
    ELSE LET q == s.callbacks[c]
             d == Range(Called(s, q)) IN
         [s EXCEPT !.nUpd = [cb \in Callbacks |-> IF cb \in d THEN Min(@[cb] + 1, MaxUpd)
                                                  ELSE @[cb]],
                   !.obs.skipped = @ \/ (Len(Called(s, q)) < Len(q))]

ProcessRaises(s, c) == InSeq(c, s.chans) /\ FirstRaise(s, s.callbacks[c]) # 0

\* _listen: message.startswith(("OK get", "OK set", "NOTIFY set"))
Prefixes == {<<"OK", "get">>, <<"OK", "set">>, <<"NOTIFY", "set">>}
startswith(parts) ==
    Len(parts) >= 2 /\ <<parts[1][1].t, parts[2][1].t>> \in Prefixes

\* _process_message up to the fan-out: where the parse of parts ends.
\* "IndexError" and "ValueError" are the indexing and int() failures,
\* "unknown" the return for a channel without subscription, "ignored" the
\* return for another command id, "update" a patch to deliver.
parsed(s, parts) ==
    LET no == [out |-> "IndexError", ch |-> 0, patch |-> NoPatch] IN
    IF Len(parts) < 3 THEN no
    ELSE LET address_path == parts[3] IN
         IF Len(address_path) < 4 THEN no
         ELSE LET command_id == address_path[2].t
                  channel_id == address_path[4] IN
              IF ~(channel_id.t = "" /\ InSeq(channel_id.n, s.chans))
              THEN [no EXCEPT !.out = "unknown"]
              ELSE IF Len(parts) < 6 THEN no
              ELSE IF ~(Len(parts[6]) = 1 /\ parts[6][1].t = "")
              THEN [no EXCEPT !.out = "ValueError"]
              ELSE LET u == update_data(s.conv.min_db_100, s.conv.max_db_100,
                                        command_id, parts[6][1].n) IN
                   IF u = NoPatch THEN [no EXCEPT !.out = "ignored"]
                   ELSE [out |-> "update", ch |-> channel_id.n, patch |-> u]

\* an exception leaves _process_message: IndexError and ValueError are caught
\* (line 269), what a callback raises is not
ParseRaisesUncaught(s, parts) ==
    LET p == parsed(s, parts) IN
    \/ p.out \in {"IndexError", "ValueError"}
    \/ p.out = "update" /\ ProcessRaises(s, p.ch)

ParseRaises(s, parts) ==
    LET p == parsed(s, parts) IN p.out = "update" /\ ProcessRaises(s, p.ch)

\* _listen, lines 190-194, for a line that decodes to parts
LineRaises(s, parts) == startswith(parts) /\ ParseRaises(s, parts)

Session(s) == <<s.is_connected, s.reader, s.writer, s.listen_task, s.callbacks,
                s.chans, s.lastAvail, s.nUpd, s.tstate>>

on_line(s, i) ==
    LET parts == Texts[i]
        p == parsed(s, parts)
        go == startswith(parts) /\ p.out = "update"
        s1 == IF go THEN process_message(s, p.ch) ELSE s IN
    [s1 EXCEPT !.obs.px =
        [ln |-> i, pre |-> startswith(parts),
         out |-> IF startswith(parts) THEN p.out ELSE "none",
         ch |-> IF go THEN p.ch ELSE 0,
         regd |-> IF go THEN s.callbacks[p.ch] ELSE <<>>,
         calls |-> IF go THEN Called(s, s.callbacks[p.ch]) ELSE <<>>,
         raised |-> LineRaises(s, parts),
         same |-> Session(s1) = Session(s),
         conn |-> s.is_connected /\ s.reader # None,
         cont |-> ~LineRaises(s, parts) /\ s1.is_connected /\ s1.reader # None]]

\* _listen: the while loop from its condition to the next suspension
RECURSIVE listen(_, _, _)
listen(s, l, t) ==
    LET o == try_read(s, t) IN
    CASE o = "wait" -> Suspend([s EXCEPT !.loc[l].tr = t], l, "read")
      [] o = "reset" -> listen_end(s, l, "reset")
      [] o = "oserr" -> close_connection([s EXCEPT !.loc[l].why = "err"], l, "listen_exc")
      [] o = "eof" -> close_connection([s EXCEPT !.loc[l].why = "eof"], l, "listen_eof")
      [] OTHER ->
            LET ln == s.rbuf[t]
                s1 == [s EXCEPT !.rbuf[t] = NoLine]
                s2 == IF ln[1] = "upd" THEN process_message(s1, ln[2])
                      ELSE IF ln[1] = "msg" THEN on_line(s1, ln[2]) ELSE s1 IN
            IF ln = UNDEC
            THEN close_connection([s1 EXCEPT !.loc[l].why = "err"], l, "listen_exc")
            ELSE IF \/ ln[1] = "upd" /\ ProcessRaises(s1, ln[2])
                    \/ ln[1] = "msg" /\ LineRaises(s1, Texts[ln[2]])
            THEN close_connection([s2 EXCEPT !.loc[l].why = "cberr"], l, "listen_exc")
            ELSE IF s2.is_connected /\ s2.reader # None
            THEN listen(s2, l, s2.reader)
            ELSE listen_end(s2, l, "cond")

\* _listen: one run of the task
listen_task_run(s, l, c) ==
    CASE s.pc[l] = "new" ->
            IF c THEN Finish(s, l, "cancelled")
            ELSE IF s.is_connected /\ s.reader # None THEN listen(s, l, s.reader)
            ELSE listen_end(s, l, "cond")
      [] s.pc[l] = "read" ->
            IF c THEN listen_end([s EXCEPT !.loc[l].tr = None], l, "cancel")
            ELSE listen([s EXCEPT !.loc[l].tr = None], l, s.loc[l].tr)
      [] OTHER -> close_resume(s, l, c)

\* _keep_alive_manager: one run of the task
keep_alive_manager(s, k, c) ==
    CASE s.pc[k] = "new" ->
            IF c THEN Finish(s, k, "cancelled") ELSE Suspend(s, k, "ka_sleep")
      [] s.pc[k] = "ka_sleep" ->
            IF c THEN Finish(s, k, "cancelled")
            ELSE LET due == s.is_connected /\ ~Falsy(s.keep_alive_channel_id)
                     s1 == [s EXCEPT !.obs.ka = [ticks |-> Min(@.ticks + 1, 2),
                                                 due |-> due, n |-> 0]] IN
                 IF due
                 THEN send_command([s1 EXCEPT !.loc[k].fr = "ka",
                                              !.loc[k].ch = s.keep_alive_channel_id,
                                              !.loc[k].qs = "P"], k)
                 ELSE Suspend(s1, k, "ka_sleep")
      [] OTHER -> common_resume(s, k, c)

\* start() without the two "if not self._..._task" guards
start_unguarded(s) ==
    LET km == Cardinality({m \in Managers : s.pc[m] # "idle"}) + 1
        kk == Cardinality({k \in KeepAlives : s.pc[k] # "idle"}) + 1 IN
    [s EXCEPT !.manager_task = <<"M", km>>, !.pc[<<"M", km>>] = "new",
              !.keep_alive_task = <<"K", kk>>, !.pc[<<"K", kk>>] = "new",
              !.ready = @ \o << <<"M", km>>, <<"K", kk>> >>,
              !.obs.launchedM = @ + 1, !.obs.launchedK = @ + 1]

\* start()
start(s) ==
    LET km == Cardinality({m \in Managers : s.pc[m] # "idle"}) + 1
        kk == Cardinality({k \in KeepAlives : s.pc[k] # "idle"}) + 1
        s1 == IF s.manager_task = NoTask
              THEN [s EXCEPT !.manager_task = <<"M", km>>, !.pc[<<"M", km>>] = "new",
                             !.ready = Append(@, <<"M", km>>),
                             !.obs.launchedM = @ + 1]
              ELSE s IN
    IF s1.keep_alive_task = NoTask
    THEN [s1 EXCEPT !.keep_alive_task = <<"K", kk>>, !.pc[<<"K", kk>>] = "new",
                    !.ready = Append(@, <<"K", kk>>),
                    !.obs.launchedK = @ + 1]
    ELSE s1

\* disconnect(): one run of the calling task
disconnect(s, d, c) ==
    IF s.pc[d] = "new"
    THEN LET s0 == [s EXCEPT !.obs.startsSince = 0, !.obs.launchedM = 0,
                             !.obs.launchedK = 0,
                             !.obs.dsc[d].was = s.is_connected,
                             !.obs.dsc[d].cbs = IF s.is_connected
                                                THEN Registered(s) ELSE {},
                             !.obs.killed = @ \cup ({s.manager_task,
                                                     s.keep_alive_task} \ {NoTask})]
             s1 == IF s0.manager_task # NoTask
                   THEN [Cancel(s0, d, s0.manager_task) EXCEPT !.manager_task = NoTask]
                   ELSE s0
             s2 == IF s1.keep_alive_task # NoTask
                   THEN [Cancel(s1, d, s1.keep_alive_task) EXCEPT !.keep_alive_task = NoTask]
                   ELSE s1 IN
         close_connection(s2, d, "disc")
    ELSE close_resume(s, d, c)

\* register_callback that queries only a channel that had no callback yet
register_callback_fresh_only(s, r, c) ==
    IF s.pc[r] = "new"
    THEN LET ch == s.loc[r].ch
             cb == r[2]
             s1 == [s EXCEPT
                      !.chans = IF InSeq(ch, @) THEN @ ELSE Append(@, ch),
                      !.callbacks[ch] = Append(@, cb),
                      !.keep_alive_channel_id = IF Falsy(@) THEN ch ELSE @,
                      !.loc[r].fr = "reg",
                      !.obs.reg[r] = [@ EXCEPT !.conn = IF s.is_connected THEN "yes" ELSE "no",
                                               !.ch = ch, !.had = InSeq(ch, s.chans),
                                               !.deliv = s.is_connected]] IN
         IF s1.is_connected
         THEN LET s2 == [s1 EXCEPT !.lastAvail[cb] = "true"] IN
              IF s.cbKind[cb] = "raise" THEN Finish(s2, r, "exc")
              ELSE IF InSeq(ch, s.chans) THEN Finish(s2, r, "ok")
              ELSE async_query_channel_state(s2, r, ch)
         ELSE Finish(s1, r, "ok")
    ELSE common_resume(s, r, c)

\* register_callback(channel_id, callback): one run of the calling task
register_callback(s, r, c) ==
    IF s.pc[r] = "new"
    THEN LET ch == s.loc[r].ch
             cb == r[2]
             s1 == [s EXCEPT
                      !.chans = IF InSeq(ch, @) THEN @ ELSE Append(@, ch),
                      !.callbacks[ch] = Append(@, cb),
                      !.keep_alive_channel_id = IF Falsy(@) THEN ch ELSE @,
                      !.loc[r].fr = "reg",
                      !.obs.reg[r] = [@ EXCEPT !.conn = IF s.is_connected THEN "yes" ELSE "no",
                                               !.ch = ch, !.had = InSeq(ch, s.chans)]] IN
         IF s1.is_connected
         THEN LET s2 == [s1 EXCEPT !.lastAvail[cb] = "true",
                                   !.obs.reg[r].deliv = TRUE] IN
              IF s.cbKind[cb] = "raise" THEN Finish(s2, r, "exc")
              ELSE async_query_channel_state(s2, r, ch)
         ELSE Finish(s1, r, "ok")
    ELSE common_resume(s, r, c)

\* async_set_power(channel_id, is_on): one run of the calling task
async_set_power(s, x, c) ==
    IF s.pc[x] = "new"
    THEN send_command([s EXCEPT !.loc[x].fr = "cmd"], x)
    ELSE common_resume(s, x, c)

\* ------------------------------------------------------------------------
\* actions
\* ------------------------------------------------------------------------
\* the event loop runs the task at the head of the ready queue; f: a write of
\* this run finds the write buffer full
Pop(x, f) == [Cur EXCEPT !.ready = Tail(@), !.cpend[x] = FALSE, !.full = f,
                         !.turn = ~@]
AtHead(x) == ready # <<>> /\ Head(ready) = x
Full == IF bud.full > 0 THEN BOOLEAN ELSE {FALSE}

ManagerRun(m) ==
    /\ AtHead(m)
    /\ \E f \in Full : Set(connection_manager(Pop(m, f), m, cpend[m]))
ListenRun(l) == AtHead(l) /\ Set(listen_task_run(Pop(l, FALSE), l, cpend[l]))
KeepAliveRun(k) ==
    /\ AtHead(k)
    /\ \E f \in Full : Set(keep_alive_manager(Pop(k, f), k, cpend[k]))
DisconnectRun(d) == AtHead(d) /\ Set(disconnect(Pop(d, FALSE), d, cpend[d]))
RegisterRun(r) ==
    /\ AtHead(r)
    /\ \E f \in Full : Set(register_callback(Pop(r, f), r, cpend[r]))
SendRun(x) ==
    /\ AtHead(x)
    /\ \E f \in Full : Set(async_set_power(Pop(x, f), x, cpend[x]))

\* the protocol's connection_lost(None), scheduled by close()
ConnectionLostCb(t) ==
    /\ AtHead(<<"X", t>>)
    /\ LET s == [Cur EXCEPT !.ready = Tail(@), !.turn = ~@] IN
       Set([s EXCEPT !.tstate[t] = "closed",
                     !.closedFut[t] = IF @ = "pending" THEN "done" ELSE @,
                     !.ready = Enqueue(@, ReadWaiters(s, t) \cup ClosedWaiters(s, t)
                                          \cup DrainWaiters(s, t))])

\* callers of the engine
Idle(S) == {x \in S : pc[x] = "idle"}
NextId(S) == Cardinality(S) - Cardinality(Idle(S)) + 1

CallStart ==
    /\ bud.start > 0
    /\ Set(start([Cur EXCEPT !.bud.start = @ - 1, !.obs.startsSince = @ + 1]))

CallDisconnect ==
    /\ bud.disc > 0
    /\ LET d == <<"D", NextId(Disconnecters)>> IN
       Set([Cur EXCEPT !.bud.disc = @ - 1, !.pc[d] = "new", !.ready = Append(@, d)])

CallRegister(ch, kind) ==
    /\ bud.reg > 0 /\ kind \in bud.kinds
    /\ ch \in 1..bud.chan \/ (bud.empty /\ ch = EmptyId)
    /\ LET i == NextId(Registrars)
           r == <<"R", i>> IN
       Set([Cur EXCEPT !.bud.reg = @ - 1, !.pc[r] = "new", !.loc[r].ch = ch,
                       !.cbKind[i] = kind, !.ready = Append(@, r)])

CallSend ==
    /\ bud.send > 0
    /\ LET x == <<"S", NextId(Senders)>> IN
       Set([Cur EXCEPT !.bud.send = @ - 1, !.pc[x] = "new", !.ready = Append(@, x)])

\* the network
Waiting(x, p) == pc[x] = p /\ ~InSeq(x, ready)

ConnectOk(m) ==
    /\ Waiting(m, "opening") /\ loc[m].ct = 0 /\ bud.conn > 0
    /\ LET t == Cardinality({u \in Transports : tstate[u] # "unopened"}) + 1 IN
       Set([Cur EXCEPT !.bud.conn = @ - 1, !.tstate[t] = "open", !.loc[m].ct = t,
                       !.ready = Append(@, m)])

ConnectFail(m) ==
    /\ Waiting(m, "opening") /\ loc[m].ct = 0 /\ bud.cfail > 0
    /\ Set([Cur EXCEPT !.bud.cfail = @ - 1, !.loc[m].ct = -1, !.ready = Append(@, m)])

HandshakeTimeout(m) ==
    /\ Waiting(m, "hs_read") /\ bud.hsto > 0
    /\ Set([Cur EXCEPT !.bud.hsto = @ - 1, !.loc[m].to = TRUE, !.ready = Append(@, m)])

Receive(t, ln) ==
    /\ tstate[t] = "open" /\ rbuf[t] = NoLine /\ bud.recv > 0 /\ ln \in bud.lines
    /\ Set([Cur EXCEPT !.bud.recv = @ - 1, !.rbuf[t] = ln,
                       !.ready = Enqueue(@, ReadWaiters(Cur, t))])

PeerEof(t) ==
    /\ tstate[t] = "open" /\ bud.eof > 0
    /\ Set([Cur EXCEPT !.bud.eof = @ - 1, !.tstate[t] = "eof",
                       !.ready = Enqueue(@, ReadWaiters(Cur, t))])

\* the transport reports an error: connection_lost(exc)
ConnectionLost(t, kind) ==
    /\ tstate[t] \in {"open", "eof"} /\ bud.lost > 0 /\ kind \in bud.errs
    /\ Set([Cur EXCEPT !.bud.lost = @ - 1, !.tstate[t] = kind, !.closedFut[t] = "done",
                       !.ready = Enqueue(@, ReadWaiters(Cur, t) \cup DrainWaiters(Cur, t))])

\* the peer has read enough: the protocol's resume_writing()
ResumeWriting(t) ==
    /\ tstate[t] \in {"open", "eof"} /\ DrainWaiters(Cur, t) # {}
    /\ Set([Cur EXCEPT !.ready = Enqueue(@, DrainWaiters(Cur, t))])

\* a timer of asyncio.sleep() fires
SleepPcs == {"backoff_sleep", "safe_sleep", "exc_sleep", "qsleep"}
TimerFire(x) ==
    /\ pc[x] \in SleepPcs /\ ~InSeq(x, ready)
    /\ Set([Cur EXCEPT !.ready = Append(@, x)])

\* the 60 s timer of the keep-alive loop fires
KeepAliveTick(k) ==
    /\ Waiting(k, "ka_sleep") /\ bud.tick > 0
    /\ Set([Cur EXCEPT !.bud.tick = @ - 1, !.ready = Append(@, k)])

\* the engine after __init__, with what the environment may do
InitEngine(b, dbs) ==
    /\ is_connected = FALSE /\ reader = None /\ writer = None
    /\ listen_task = NoTask /\ manager_task = NoTask /\ keep_alive_task = NoTask
    /\ callbacks = [c \in Channels |-> <<>>] /\ chans = <<>>
    /\ keep_alive_channel_id = None /\ lock = NoTask /\ lockq = <<>>
    /\ cbKind = [cb \in Callbacks |-> "ok"]
    /\ lastAvail = [cb \in Callbacks |-> "none"]
    /\ nUpd = [cb \in Callbacks |-> 0]
    /\ tstate = [t \in Transports |-> "unopened"]
    /\ closedFut = [t \in Transports |-> "pending"]
    /\ rbuf = [t \in Transports |-> NoLine]
    /\ pc = [x \in Tasks |-> "idle"]
    /\ cpend = [x \in Tasks |-> FALSE]
    /\ loc = [x \in Tasks |-> LocInit]
    /\ result = [x \in Tasks |-> "none"]
    /\ ready = <<>>
    /\ bud = b
    /\ obs = ObsInit
    /\ conv \in ConvInit(dbs)
    /\ turn = FALSE

InitWith(b) == InitEngine(b, {DEFAULT_MIN_DB} \X {DEFAULT_MAX_DB})

NoBudget == [start |-> 0, disc |-> 0, reg |-> 0, chan |-> 1, kinds |-> {"ok"},
             send |-> 0, conn |-> 0, cfail |-> 0, hsto |-> 0, recv |-> 0,
             lines |-> {HS_OK}, eof |-> 0, lost |-> 0, errs |-> {"reset"},
             full |-> 0, tick |-> 0, empty |-> FALSE]

\* steps of the event loop that every environment has
Run ==
    \/ \E m \in Managers : ManagerRun(m)
    \/ \E l \in Listeners : ListenRun(l)
    \/ \E k \in KeepAlives : KeepAliveRun(k)
    \/ \E t \in Transports : ConnectionLostCb(t)
    \/ \E x \in Tasks : TimerFire(x)
    \/ CallStart
    \/ \E m \in Managers : ConnectOk(m)
    \/ \E t \in Transports, ln \in Lines : Receive(t, ln)

\* ---- the life cycle: start, disconnect, failed attempts, end-of-stream ----
Init == InitWith([NoBudget EXCEPT !.start = 1, !.disc = LcDisc, !.conn = LcConn,
                                  !.recv = LcRecv, !.lines = {HS_OK, UNDEC},
                                  !.eof = LcEof, !.cfail = LcFail, !.send = LcSend,
                                  !.reg = LcReg])

Next ==
    \/ Run
    \/ \E d \in Disconnecters : DisconnectRun(d)
    \/ \E r \in Registrars : RegisterRun(r)
    \/ \E x \in Senders : SendRun(x)
    \/ CallDisconnect
    \/ \E ch \in Channels, kind \in {"ok", "raise"} : CallRegister(ch, kind)
    \/ CallSend
    \/ \E m \in Managers : ConnectFail(m)
    \/ \E t \in Transports : PeerEof(t)

Spec == Init /\ [][Next]_vars

\* ---- fan-out: several subscribers, some of which raise ----
InitFan == InitWith([NoBudget EXCEPT !.start = 1, !.conn = 1, !.reg = FanReg,
                                     !.chan = FanChan, !.kinds = {"ok", "raise"},
                                     !.recv = FanRecv, !.lines = {HS_OK, Upd(1)}])

NextFan ==
    \/ Run
    \/ \E r \in Registrars : RegisterRun(r)
    \/ \E ch \in Channels, kind \in {"ok", "raise"} : CallRegister(ch, kind)

SpecFan == InitFan /\ [][NextFan]_vars

\* ---- parsing: well-formed and malformed lines for two channels ----
InitParse == InitWith([NoBudget EXCEPT !.start = 1, !.conn = 1, !.reg = ParReg,
                                       !.chan = ParChan, !.kinds = {"ok", "raise"},
                                       !.recv = ParRecv,
                                       !.lines = {HS_OK} \cup
                                                 {Msg(i) : i \in DOMAIN Texts}])

SpecParse == InitParse /\ [][NextFan]_vars

\* ---- stopping: disconnect() among registrations and commands ----
InitStop == InitWith([NoBudget EXCEPT !.start = 1, !.disc = StopDisc, !.conn = 1,
                                      !.recv = 1, !.reg = StopReg,
                                      !.kinds = {"ok", "raise"}, !.send = StopSend])

NextStop ==
    \/ Run
    \/ \E d \in Disconnecters : DisconnectRun(d)
    \/ \E r \in Registrars : RegisterRun(r)
    \/ \E x \in Senders : SendRun(x)
    \/ CallDisconnect
    \/ \E ch \in Channels, kind \in {"ok", "raise"} : CallRegister(ch, kind)
    \/ CallSend

SpecStop == InitStop /\ [][NextStop]_vars

\* ---- reconnecting: one session that ends, under a fair event loop ----
InitRetry == InitWith([NoBudget EXCEPT !.start = 1, !.conn = 1, !.recv = RtRecv,
                                       !.lines = {HS_OK, UNDEC}, !.eof = RtEof,
                                       !.lost = RtLost, !.errs = {"reset", "oserr"},
                                       !.send = RtSend])

NextRetry ==
    \/ Run
    \/ \E x \in Senders : SendRun(x)
    \/ CallSend
    \/ \E t \in Transports : PeerEof(t)
    \/ \E t \in Transports, kind \in {"reset", "oserr"} : ConnectionLost(t, kind)

\* One step of the event loop: it runs the callback at the head of its ready
\* queue, whatever task that is, and turn flips.  The queue is first-in
\* first-out, so a loop that keeps stepping runs every task it has scheduled.
LoopStep == ready # <<>> /\ turn' = ~turn

\* the loop keeps stepping and the timer of every sleeping manager fires
Fairness ==
    /\ WF_turn(LoopStep)
    /\ \A x \in Managers : WF_vars(TimerFire(x))

SpecRetry == InitRetry /\ [][NextRetry]_vars /\ Fairness

\* ---- resynchronising: registrations around one handshake, callbacks that
\* never raise ----
InitResync == InitWith([NoBudget EXCEPT !.start = 1, !.conn = 1, !.recv = RsRecv,
                                        !.lines = {HS_OK, JUNK},
                                        !.reg = RsReg, !.chan = RsChan])

SpecResync == InitResync /\ [][NextFan]_vars

\* ---- registrations, the channel id '' among them, around a disconnect ----
InitAnchor == InitWith([NoBudget EXCEPT !.start = 1, !.conn = 1, !.recv = 1,
                                        !.reg = AnReg, !.chan = AnChan,
                                        !.kinds = {"ok", "raise"},
                                        !.empty = TRUE, !.disc = AnDisc])

NextAnchor ==
    \/ Run
    \/ \E d \in Disconnecters : DisconnectRun(d)
    \/ \E r \in Registrars : RegisterRun(r)
    \/ CallDisconnect
    \/ \E ch \in Channels, kind \in {"ok", "raise"} : CallRegister(ch, kind)

SpecAnchor == InitAnchor /\ [][NextAnchor]_vars

\* ---- closing: the Listener, a sender and disconnect() close one session ----
InitClose == InitWith([NoBudget EXCEPT !.start = 1, !.conn = ClConn, !.recv = ClRecv,
                                       !.reg = 1, !.send = ClSend, !.full = ClFull,
                                       !.lost = ClLost, !.errs = {"oserr"},
                                       !.disc = ClDisc])

NextClose ==
    \/ Run
    \/ \E d \in Disconnecters : DisconnectRun(d)
    \/ \E r \in Registrars : RegisterRun(r)
    \/ \E x \in Senders : SendRun(x)
    \/ CallDisconnect
    \/ \E ch \in Channels, kind \in {"ok", "raise"} : CallRegister(ch, kind)
    \/ CallSend
    \/ \E t \in Transports, kind \in {"reset", "oserr"} : ConnectionLost(t, kind)
    \/ \E t \in Transports : ResumeWriting(t)

SpecClose == InitClose /\ [][NextClose]_vars

\* ---- supervising: failures inside the manager loop, under a fair loop ----
InitSupervise == InitWith([NoBudget EXCEPT !.start = 1, !.conn = 1, !.cfail = SvFail,
                                           !.recv = SvRecv, !.lines = {HS_OK, JUNK},
                                           !.reg = 1, !.kinds = {"ok", "raise"},
                                           !.eof = SvEof])

NextSupervise ==
    \/ Run
    \/ \E r \in Registrars : RegisterRun(r)
    \/ \E ch \in Channels, kind \in {"ok", "raise"} : CallRegister(ch, kind)
    \/ \E m \in Managers : ConnectFail(m)
    \/ \E t \in Transports : PeerEof(t)

SpecSupervise == InitSupervise /\ [][NextSupervise]_vars /\ Fairness

\* ---- keep-alive: ticks of the 60 s timer around the end of a session ----
InitPulse == InitWith([NoBudget EXCEPT !.start = 1, !.conn = 1, !.recv = 1,
                                       !.reg = 1, !.eof = PlEof, !.tick = PlTick,
                                       !.disc = PlDisc])

NextPulse ==
    \/ Run
    \/ \E d \in Disconnecters : DisconnectRun(d)
    \/ \E r \in Registrars : RegisterRun(r)
    \/ CallDisconnect
    \/ \E ch \in Channels, kind \in {"ok", "raise"} : CallRegister(ch, kind)
    \/ \E t \in Transports : PeerEof(t)
    \/ \E k \in KeepAlives : KeepAliveTick(k)

SpecPulse == InitPulse /\ [][NextPulse]_vars

\* ---- sending: concurrent senders, flow control, a lost connection ----
InitSend == InitWith([NoBudget EXCEPT !.start = 1, !.conn = SndConn, !.reg = SndReg,
                                      !.recv = SndConn, !.send = SndSend,
                                      !.full = SndFull, !.lost = SndLost,
                                      !.errs = {"reset", "oserr"}, !.tick = SndTick,
                                      !.hsto = SndHsto])

NextSend ==
    \/ Run
    \/ \E r \in Registrars : RegisterRun(r)
    \/ \E x \in Senders : SendRun(x)
    \/ \E ch \in Channels, kind \in {"ok", "raise"} : CallRegister(ch, kind)
    \/ CallSend
    \/ \E t \in Transports, kind \in {"reset", "oserr"} : ConnectionLost(t, kind)
    \/ \E t \in Transports : ResumeWriting(t)
    \/ \E k \in KeepAlives : KeepAliveTick(k)
    \/ \E m \in Managers : HandshakeTimeout(m)

SpecSend == InitSend /\ [][NextSend]_vars

\* ---- starting: repeated start(), one disconnect() ----
InitStart == InitWith([NoBudget EXCEPT !.start = StStart, !.disc = StDisc,
                                       !.conn = StConn, !.recv = StConn])

NextStart ==
    \/ Run
    \/ \E d \in Disconnecters : DisconnectRun(d)
    \/ CallDisconnect

SpecStart == InitStart /\ [][NextStart]_vars

\* ---- conversions: set volume on an engine that is not connected (the
\* command is formed, _send_command returns at once), parse of a reply ----
DbValues == {-139, -138, -80, -1, 0, 1}
\* values an amplifier line may carry: the sentinel, the value last set, the
\* ends of the range and their neighbours, 0 and 1
ParseValues(c) == <<AMP_MUTE_VALUE, c.amp, c.min_db_100, c.max_db_100,
                    c.min_db_100 - 1, c.max_db_100 + 1, 0, 1>>

AsyncSetVolume(k) ==
    /\ conv.op = "none"
    /\ Set([Cur EXCEPT !.conv = [@ EXCEPT !.op = "set", !.k = k,
                   !.amp = amp_volume(conv.min_db_100, conv.max_db_100, k)]])

ProcessMessage(command_id, i) ==
    /\ conv.op \in {"none", "set"}
    /\ LET value == ParseValues(conv)[i] IN
       Set([Cur EXCEPT !.conv = [@ EXCEPT !.op = "parse",
                   !.echo = (conv.op = "set" /\ command_id = PATH_ID_VOLUME
                             /\ value = conv.amp),
                   !.cmd = command_id, !.value = value,
                   !.patch = update_data(conv.min_db_100, conv.max_db_100,
                                         command_id, value)]])

InitConv == InitEngine(NoBudget, DbValues \X DbValues)

NextConv ==
    \/ \E k \in 0..VolDen : AsyncSetVolume(k)
    \/ \E command_id \in {PATH_ID_POWER, PATH_ID_VOLUME, "60001"},
          i \in 1..8 : ProcessMessage(command_id, i)

SpecConv == InitConv /\ [][NextConv]_vars

\* ------------------------------------------------------------------------
\* properties
\* ------------------------------------------------------------------------
\* C1: once disconnect() has run, the manager it cancelled starts no further
\* connection attempt and never sets the connected flag again.
C1_StopIsFinal == ~obs.lateAttempt /\ ~obs.lateConn

\* C2: a Listener that ends because it read end-of-stream or because its read
\* failed leaves the session closed: flag false, handles released, no
\* subscriber still told "available".
C2_ListenerClosesSession == ~obs.leftOpen

\* C3: a callback that raises neither keeps the callbacks after it from being
\* called nor ends the Listener.
C3_CallbackIsolation == ~obs.skipped /\ ~obs.cbEndedListener

\* C4: the sleep after the k-th consecutive failed attempt lasts
\* min(5 * 2^(k-1), 60).
C4_BackoffSequence ==
    \A m \in Managers :
        (pc[m] \in {"backoff_sleep", "exc_sleep"} /\ loc[m].nfail > 0)
            => loc[m].slept = Min(RECONNECT_DELAY_INITIAL * 2^(loc[m].nfail - 1),
                                  RECONNECT_DELAY_MAX)

\* C5: with subscribers that never raise, when the code that follows a
\* matching handshake reply has ended, one power query followed by one volume
\* query has been written for every channel registered at the handshake.
C5_HandshakeResync ==
    (\A cb \in Callbacks : cbKind[cb] = "ok") =>
        (obs.hs \in {"returned", "raised"} =>
            \A i \in DOMAIN obs.hsChans : obs.hq[obs.hsChans[i]] = <<"P", "V">>)

\* C6: a send never raises for want of a transport and never writes while the
\* connected flag is false.
C6_SendWhileDisconnected == ~obs.attrErr /\ ~obs.wroteDisc

\* C7: a sender whose write or flush failed while the flag was set returns
\* from closing the session with the flag false, the Listener forgotten and no
\* subscriber still told "available".
C7_WriteFailureClosesSession == obs.sendClose # "bad"

\* C8: on every transport at most one task is between its write and the end
\* of its flush, and no write (the handshake's included) begins while one is.
C8_WritesDoNotOverlap ==
    /\ ~obs.overlap
    /\ \A t \in Transports :
          Cardinality({x \in Tasks : pc[x] \in {"drain", "drain0"} /\ loc[x].tr = t}) <= 1

\* C8 witness: one sender waits for its flush while another waits for the lock.
C8_Witness ==
    \E x, y \in Tasks : x # y /\ pc[x] = "drain" /\ lock = x /\ pc[y] = "lockwait"

\* C9: at most one transport opened by the engine is open at any time.
C9_OneOpenTransport ==
    Cardinality({t \in Transports : tstate[t] \in {"open", "eof"}}) <= 1

\* C10: after one or more start() calls since the last disconnect() (or since
\* construction) exactly one manager loop and one keep-alive loop were launched.
C10_StartIdempotent ==
    /\ obs.startsSince >= 1 => obs.launchedM = 1 /\ obs.launchedK = 1
    /\ (bud.disc = StDisc /\ obs.startsSince >= 1) =>
          /\ Cardinality({m \in Managers : pc[m] # "idle"}) = 1
          /\ Cardinality({k \in KeepAlives : pc[k] # "idle"}) = 1

\* C10 witness: start() was called again while both loops existed.
C10_Witness ==
    /\ obs.startsSince >= 2 /\ obs.launchedM = 1 /\ obs.launchedK = 1
    /\ manager_task # NoTask /\ keep_alive_task # NoTask

\* C11: register_callback for a callback that does not raise: called while
\* connected it appends the callback, delivers {available: true} at once and,
\* if no send of it found the session closed, has written one power query then
\* one volume query when it returns, whether or not the channel had callbacks;
\* called while not connected it delivers nothing and writes nothing.
C11_RegisterResync ==
    \A r \in Registrars :
        LET o == obs.reg[r] IN
        (cbKind[r[2]] = "ok" /\ o.conn # "none") =>
            /\ InSeq(r[2], callbacks[o.ch])
            /\ o.conn = "no" => (~o.deliv /\ o.q = <<>>)
            /\ o.conn = "yes" =>
                  /\ o.deliv
                  /\ o.q \in {<<>>, <<"P">>, <<"P", "V">>}
                  /\ (pc[r] = "done" /\ result[r] = "ok" /\ ~o.skip) => o.q = <<"P", "V">>

\* C11 witness: a registration for a channel that already had callbacks, made
\* while connected, has returned after writing both queries.
C11_Witness ==
    \E r \in Registrars :
        /\ obs.reg[r].conn = "yes" /\ obs.reg[r].had /\ cbKind[r[2]] = "ok"
        /\ pc[r] = "done" /\ obs.reg[r].q = <<"P", "V">>

\* C12: a volume k / VolDen set with a range min_db_100 < max_db_100 and
\* parsed back from the amplifier's echo of the value sent yields a volume
\* field within 1 / (max_db_100 - min_db_100) of k / VolDen.
C12_VolumeRoundTrip ==
    (conv.op = "parse" /\ conv.echo /\ conv.min_db_100 < conv.max_db_100) =>
        /\ conv.patch.kind = "volume"
        /\ LET n == conv.patch.volume[1]
               d == conv.patch.volume[2]
               r == conv.max_db_100 - conv.min_db_100
               e == n * VolDen * r - conv.k * d * r IN
           (IF e >= 0 THEN e ELSE -e) <= d * VolDen

\* C13: the value sent for the volume k / VolDen is min_db_100 plus the
\* integer nearest to (k / VolDen) * (max_db_100 - min_db_100).
C13_VolumeRounded ==
    (conv.op = "set" /\ conv.min_db_100 <= conv.max_db_100) =>
        LET e == 2 * ((conv.amp - conv.min_db_100) * VolDen
                      - conv.k * (conv.max_db_100 - conv.min_db_100)) IN
        (IF e >= 0 THEN e ELSE -e) <= VolDen

\* C14: the patch of a well-formed line: the sentinel on the volume path gives
\* exactly {mute: true}; another value gives {mute: false, volume: x} with x
\* the clamped fraction of the range, 1 for an empty range; the power path
\* gives {power: value = 1}; another command id gives no patch.
C14_ParsedPatch ==
    conv.op = "parse" =>
        LET v == conv.value
            r == conv.max_db_100 - conv.min_db_100
            p == conv.patch IN
        /\ conv.cmd = PATH_ID_POWER => p = [kind |-> "power", power |-> (v = 1)]
        /\ (conv.cmd = PATH_ID_VOLUME /\ v = AMP_MUTE_VALUE) =>
              p = [kind |-> "mute", mute |-> TRUE]
        /\ (conv.cmd = PATH_ID_VOLUME /\ v # AMP_MUTE_VALUE) =>
              /\ p.kind = "volume" /\ p.mute = FALSE /\ DOMAIN p = {"kind", "mute", "volume"}
              /\ p.volume[2] > 0 /\ p.volume[1] >= 0 /\ p.volume[1] <= p.volume[2]
              /\ r = 0 => p.volume[1] = p.volume[2]
              /\ (r > 0 /\ v <= conv.min_db_100) => p.volume[1] = 0
              /\ (r > 0 /\ v >= conv.max_db_100) => p.volume[1] = p.volume[2]
              /\ (r > 0 /\ v > conv.min_db_100 /\ v < conv.max_db_100) =>
                    p.volume[1] * r = (v - conv.min_db_100) * p.volume[2]
              /\ (r < 0 /\ v >= conv.min_db_100) => p.volume[1] = 0
              /\ (r < 0 /\ v <= conv.max_db_100) => p.volume[1] = p.volume[2]
              /\ (r < 0 /\ v < conv.min_db_100 /\ v > conv.max_db_100) =>
                    p.volume[1] * r = (v - conv.min_db_100) * p.volume[2]
        /\ conv.cmd \notin {PATH_ID_POWER, PATH_ID_VOLUME} => p = NoPatch

\* C14 witness: a volume line inside a non-empty range was parsed.
C14_Witness ==
    /\ conv.op = "parse" /\ conv.cmd = PATH_ID_VOLUME
    /\ conv.value > conv.min_db_100 /\ conv.value < conv.max_db_100
    /\ conv.value # AMP_MUTE_VALUE /\ conv.patch.kind = "volume"
    /\ conv.patch.volume[1] > 0 /\ conv.patch.volume[1] < conv.patch.volume[2]

\* ------------------------------------------------------------------------
\* Malformed(parts): fewer than 6 fields, an address field with fewer than 4
\* slash-separated parts, or a 6th field that is not a number
Malformed(parts) ==
    \/ Len(parts) < 6
    \/ Len(parts[3]) < 4
    \/ ~(Len(parts[6]) = 1 /\ parts[6][1].t = "")

\* C15: a malformed line received by the Listener invokes no callback, raises
\* no error out of the parser and leaves the session as it was: the flag stays
\* true and the Listener goes on to its next read.
C15_MalformedLineDropped ==
    (obs.px.ln # 0 /\ Malformed(Texts[obs.px.ln])) =>
        /\ obs.px.calls = <<>>
        /\ ~obs.px.raised
        /\ obs.px.same
        /\ (obs.px.conn => obs.px.cont)

\* a non-numeric value for a subscribed channel has been received and dropped
\* by a connected Listener, which went on reading
C15_Witness ==
    /\ obs.px.out = "ValueError" /\ obs.px.conn /\ obs.px.cont
    /\ \E l \in Listeners : pc[l] = "read"

\* C20: an update for channel c is delivered to the callbacks registered for
\* c, each once and in registration order, and to no other callback; a line
\* for a channel without subscription invokes no callback, raises nothing and
\* changes nothing; a line without a recognised prefix invokes no callback.
C20_FanOutExact ==
    /\ obs.px.out = "update" => obs.px.calls = obs.px.regd
    /\ obs.px.out = "unknown" =>
            obs.px.calls = <<>> /\ ~obs.px.raised /\ obs.px.same
    /\ (obs.px.ln # 0 /\ ~obs.px.pre) => obs.px.calls = <<>>

\* C16: when disconnect() returns the session is torn down: the flag is
\* false, the handles are released, the Listener and the keep-alive task are
\* cancelled, and if the session was connected when disconnect() began every
\* callback registered then has been given {available: false}, once.
C16_DisconnectTearsDown ==
    \A d \in Disconnecters :
        obs.dsc[d].end = "returned" =>
            /\ obs.dsc[d].torn
            /\ obs.dsc[d].stopped
            /\ obs.dsc[d].was => (obs.dsc[d].told /\ obs.dsc[d].nf = 1)

\* C17: once the Listener of the session has ended (no disconnect() is ever
\* called here), the manager eventually makes a new connection attempt.
ListenerEnded == pc[<<"L", 1>>] = "done"
NewAttempt == \E m \in Managers : pc[m] = "opening"
C17_ReconnectAfterListenerEnds == ListenerEnded ~> NewAttempt

\* C18: the manager never takes the safeguard branch (top of the loop with the
\* flag true), and whenever the flag is true a Listener is running or the
\* resync of the handshake is in progress.
C18_ConnectedHasListener ==
    /\ \A m \in Managers : pc[m] # "safe_sleep"
    /\ is_connected =>
          \/ \E l \in Listeners : pc[l] \notin {"idle", "done"}
          \/ obs.hs = "running"

\* C19: while the manager sleeps after an attempt that did not connect, the
\* transport the attempt opened is closed, the handles are released and the
\* flag is false.
FailedAttemptSleeps(m) ==
    pc[m] \in {"backoff_sleep", "exc_sleep"} /\ obs.hs = "none"

C19_FailedAttemptClosed ==
    \A m \in Managers :
        FailedAttemptSleeps(m) =>
            /\ loc[m].ct \in Transports => tstate[loc[m].ct] \notin {"open", "eof"}
            /\ reader = None /\ writer = None
            /\ ~is_connected

\* C21: a tick of the keep-alive loop writes one query when the session is
\* connected and a keep-alive channel is designated and nothing otherwise, and
\* the loop ends only when disconnect() has cancelled it.
C21_KeepAlivePulse ==
    \A k \in KeepAlives :
        /\ pc[k] = "done" => k \in obs.killed
        /\ (pc[k] = "ka_sleep" /\ obs.ka.ticks > 0) =>
                obs.ka.n = (IF obs.ka.due THEN 1 ELSE 0)

\* C22: the keep-alive channel id is unset before any registration and is from
\* then on the channel id of the first register_callback call, whatever later
\* registrations, reconnects and disconnects do; every callback registered so
\* far is still in the subscription table under its channel id.
HasRegistered(r) == pc[r] \notin {"idle", "new"}
C22_KeepAliveAnchor ==
    /\ (\A r \in Registrars : ~HasRegistered(r)) => keep_alive_channel_id = None
    /\ HasRegistered(<<"R", 1>>) => keep_alive_channel_id = obs.reg[<<"R", 1>>].ch
    /\ \A r \in Registrars :
           HasRegistered(r) => /\ InSeq(obs.reg[r].ch, chans)
                               /\ InSeq(r[2], callbacks[obs.reg[r].ch])

\* C23: closing a session is idempotent: a close of an already closed session
\* changes no state and notifies nobody, so within one session (from one
\* successful handshake to the next) no registered callback receives
\* {available: false} more than once, whichever tasks invoke the close.
C23_CloseIdempotent ==
    /\ ~obs.cl.changed
    /\ \A cb \in Callbacks : obs.cl.nfalse[cb] <= 1

\* the Listener, a sender and disconnect() have all closed one session, one of
\* them when it was closed already, and a callback was told {available: false}
C23_Witness ==
    /\ {"L", "S", "D"} \subseteq obs.cl.by
    /\ obs.cl.again
    /\ \E cb \in Callbacks : obs.cl.nfalse[cb] = 1

\* C24: the connection manager ends only when disconnect() has cancelled it,
\* and whenever it is running while no transport to the amplifier is open, it
\* eventually makes a connection attempt (disconnect() is never called here).
Unreachable == \A t \in Transports : tstate[t] # "open"
Attempting(m) == pc[m] = "opening"
====
